---- MODULE Spec2Model ----
(***************************************************************************)
(* GitLab contributions exporter: the fetch / cache / normalize / merge /  *)
(* replay pipeline of GitlabContributionProcessor (runner.py) over the     *)
(* remote client GitlabAPIWrapper (api.py).                                *)
(***************************************************************************)
EXTENDS Integers, Sequences, FiniteSets, TLC

\* ------------------------------------------------------------------ bounds
\* Longest event list and commit list held by a processor whose
\* process_contributions is exercised on its own.
MaxEvents == 2
MaxCommits == 2
\* Calls of process_contributions on one processor object.
MaxCalls == 2

\* ------------------------------------------------------- ISO-8601 dates
\* A date string "2024-01-01THH:00:00<zone>" is kept as its varying parts:
\* the local hour hh and the UTC offset off (whole hours, 0 rendered "Z",
\* positive rendered "+0h:00").
Date(h, o) == [hh |-> h, off |-> o]

\* The characters of the string after the common prefix, as code points.
\* Python compares str values code point by code point.
Digit(n) == 48 + n
ZoneText(o) == IF o = 0 THEN <<90>>
               ELSE <<43, Digit(o \div 10), Digit(o % 10), 58, Digit(0), Digit(0)>>
IsoText(d) == <<Digit(d.hh \div 10), Digit(d.hh % 10), 58, Digit(0), Digit(0),
                58, Digit(0), Digit(0)>> \o ZoneText(d.off)

\* dateutil.parser.parse: the instant denoted, in minutes since midnight UTC.
Parse(d) == d.hh * 60 - d.off * 60

\* Python's str.__lt__ : lexicographic on code points, a proper prefix first.
RECURSIVE StrLess(_, _)
StrLess(s, t) ==
    IF t = <<>> THEN FALSE
    ELSE IF s = <<>> THEN TRUE
    ELSE IF Head(s) # Head(t) THEN Head(s) < Head(t)
    ELSE StrLess(Tail(s), Tail(t))

D08Z  == Date(8, 0)     \* 08:00:00Z        instant 480
D10Z  == Date(10, 0)    \* 10:00:00Z        instant 600
D11p2 == Date(11, 2)    \* 11:00:00+02:00   instant 540
D09p2 == Date(9, 2)     \* 09:00:00+02:00   instant 420

\* --------------------------------------------------------------- records
Instances == <<"A", "B">>
NumInstances == Len(Instances)

\* (action_name, target_type) pairs the remote may report for an event.
EventShapes ==
    { <<"created", "None">>, <<"opened", "MergeRequest">>, <<"opened", "Issue">>,
      <<"opened", "Milestone">>, <<"accepted", "MergeRequest">>, <<"pushed", "None">> }

GitlabEvent(pid, shape, date, inst) ==
    [project_id |-> pid, action_name |-> shape[1], target_type |-> shape[2],
     created_at |-> date, instance |-> inst]

\* A project as the remote reports it: besides id and created_at it says
\* whether the project is a fork (forked_from_project is present) and whether
\* its path holds the user's name. No code reads the last two.
RemoteProject(pid, date, inst, fork, own) ==
    [id |-> pid, created_at |-> date, instance |-> inst,
     forked |-> fork, own_path |-> own]

GitlabProject(pid, date, inst) == RemoteProject(pid, date, inst, FALSE, TRUE)

GitlabCommit(cid, pid, date, inst) ==
    [id |-> cid, project_id |-> pid, committed_date |-> date, instance |-> inst]

GitlabContribution(type, msg, pid, date, inst) ==
    [contribution_type |-> type, message |-> msg, project_id |-> pid,
     date |-> date, instance |-> inst]

\* GitlabContributionProcessor.__init__ : the counters start at zero.
ZeroCounts ==
    [projects |-> [created |-> 0],
     merge_requests |-> [opened |-> 0, accepted |-> 0],
     issues |-> [opened |-> 0],
     commits |-> 0]

\* --------------------------------------------------- process_contributions
\* EventKind with the opened-Issue branch given the merge-request label.
EventKindMislabel(e) ==
    IF e.action_name = "created" THEN <<"project", "Created project">>
    ELSE IF e.action_name = "opened" THEN
        IF e.target_type \in {"MergeRequest", "Issue"}
          THEN <<"merge_request", "Opened merge request">>
        ELSE <<"raise", "Unknown target type">>
    ELSE IF e.action_name = "accepted" THEN <<"merge_request", "Accepted merge request">>
    ELSE <<"raise", "Unknown action name">>

\* The branch an event takes in the if/elif chain: the contribution type and
\* message it is given, or "raise" when no branch matches.
EventKind(e) ==
    IF e.action_name = "created" THEN <<"project", "Created project">>
    ELSE IF e.action_name = "opened" THEN
        IF e.target_type = "MergeRequest" THEN <<"merge_request", "Opened merge request">>
        ELSE IF e.target_type = "Issue" THEN <<"issue", "Opened issue">>
        ELSE <<"raise", "Unknown target type">>
    ELSE IF e.action_name = "accepted" THEN <<"merge_request", "Accepted merge request">>
    ELSE <<"raise", "Unknown action name">>

\* The counter an event increments.
BumpEvent(c, e) ==
    IF e.action_name = "created"
      THEN [c EXCEPT !.projects.created = @ + 1]
    ELSE IF e.action_name = "opened" /\ e.target_type = "MergeRequest"
      THEN [c EXCEPT !.merge_requests.opened = @ + 1]
    ELSE IF e.action_name = "opened" /\ e.target_type = "Issue"
      THEN [c EXCEPT !.issues.opened = @ + 1]
    ELSE IF e.action_name = "accepted"
      THEN [c EXCEPT !.merge_requests.accepted = @ + 1]
    ELSE c

EventContribution(e) ==
    GitlabContribution(EventKind(e)[1], EventKind(e)[2], e.project_id,
                       e.created_at, e.instance)

CommitContribution(c) ==
    GitlabContribution("commit", "Committed to project", c.project_id,
                       c.committed_date, c.instance)

\* The first loop: walks the events in order, stopping at the first event no
\* branch matches. acc = [raised, counts, out].
RECURSIVE EventLoop(_, _)
EventLoop(evs, acc) ==
    IF evs = <<>> THEN acc
    ELSE IF EventKind(Head(evs))[1] = "raise" THEN [acc EXCEPT !.raised = TRUE]
    ELSE EventLoop(Tail(evs),
                   [acc EXCEPT !.counts = BumpEvent(@, Head(evs)),
                               !.out = Append(@, EventContribution(Head(evs)))])

\* The second loop: one commit contribution and one count per commit.
RECURSIVE CommitLoop(_, _)
CommitLoop(cms, acc) ==
    IF cms = <<>> THEN acc
    ELSE CommitLoop(Tail(cms),
                    [acc EXCEPT !.counts.commits = @ + 1,
                                !.out = Append(@, CommitContribution(Head(cms)))])

\* The key of contributions.sort(key=lambda x: x["date"]) is the date string;
\* KeyLess is the comparison list.sort applies to two keys.
KeyLess(a, b) == StrLess(IsoText(a.date), IsoText(b.date))

\* InsertSorted as an unstable sort would place an element: before the
\* elements already placed whose key equals its own.
RECURSIVE InsertSortedUnstable(_, _)
InsertSortedUnstable(s, x) ==
    IF s = <<>> THEN <<x>>
    ELSE IF ~KeyLess(Head(s), x) THEN <<x>> \o s
    ELSE <<Head(s)>> \o InsertSortedUnstable(Tail(s), x)

\* list.sort is stable: an element goes after every element already placed
\* whose key is not greater than its own.
RECURSIVE InsertSorted(_, _)
InsertSorted(s, x) ==
    IF s = <<>> THEN <<x>>
    ELSE IF KeyLess(x, Head(s)) THEN <<x>> \o s
    ELSE <<Head(s)>> \o InsertSorted(Tail(s), x)

RECURSIVE SortByDate(_, _)
SortByDate(done, rest) ==
    IF rest = <<>> THEN done
    ELSE SortByDate(InsertSorted(done, Head(rest)), Tail(rest))

\* process_contributions on a processor holding evs, cms and counters cnt:
\* [raised, counts, contributions]. When an event raises, the counters keep
\* the increments made so far and self.contributions is not assigned.
process_contributions(evs, cms, cnt, old) ==
    LET a == EventLoop(evs, [raised |-> FALSE, counts |-> cnt, out |-> <<>>])
        b == CommitLoop(cms, a)
    IN IF a.raised
         THEN [raised |-> TRUE, counts |-> a.counts, contributions |-> old]
         ELSE [raised |-> FALSE, counts |-> b.counts,
               contributions |-> SortByDate(<<>>, b.out)]

\* _get_total_counts: the sum over every category counter.
get_total_counts(c) ==
    c.projects.created + c.merge_requests.opened + c.merge_requests.accepted
      + c.issues.opened + c.commits


\* ------------------------------------------------------------ the remote
\* What one instance may answer to a list call. Every fetch draws a fresh
\* answer: the remote's content may change between two runs.
\* Longest list an instance returns for one events or commits call.
MaxRemote == 1

RECURSIVE SeqsUpTo(_, _)
SeqsUpTo(S, n) ==
    IF n = 0 THEN { <<>> }
    ELSE SeqsUpTo(S, n - 1) \cup
         { Append(s, x) : s \in { t \in SeqsUpTo(S, n - 1) : Len(t) = n - 1 }, x \in S }

\* Events as the remote reports them (no instance tag yet).
RemoteEvents == { GitlabEvent(1, sh, D10Z, "") :
                    sh \in { <<"created", "None">>, <<"pushed", "None">> } }
EventAnswers == { <<>> } \cup { <<e>> : e \in RemoteEvents }

\* The answer to the second listing (action="merged"): nothing, or one
\* accepted merge request of 08:00Z.
RemoteMerged == { GitlabEvent(1, <<"accepted", "MergeRequest">>, D08Z, "") }
MergedAnswers == { <<>> } \cup { <<e>> : e \in RemoteMerged }

\* An instance holds no project or the one project, created at 08:00Z.
RemoteProjects == { GitlabProject(1, D08Z, "") }
ProjectAnswers == { <<>> } \cup { <<p>> : p \in RemoteProjects }

\* The commits a project's history may hold (an id is a content hash, so it
\* fixes the date): one after the project's creation, one at the very
\* instant of it, one before it. A listing is a list of them, or a
\* GitlabError.
RemoteCommits == { [id |-> 1, committed_date |-> D10Z],
                   [id |-> 2, committed_date |-> D08Z],
                   [id |-> 3, committed_date |-> D09p2] }
CommitAnswers == { [error |-> FALSE, list |-> l] : l \in SeqsUpTo(RemoteCommits, MaxRemote) }
                 \cup { [error |-> TRUE, list |-> <<>>] }

\* ---------------------------------------------------------------- state
VARIABLES
    tokens,         \* apis[i].private_token, "" when none was given
    events,         \* self.events
    projects,       \* self.projects
    commits,        \* self.commits
    contributions,  \* self.contributions
    counts,         \* self.counts
    repo,           \* self.repo is set
    calls,          \* calls of process_contributions on this processor
    cache,          \* db/EXPORT_<kind>.json : [state, data]
    target,         \* the repository at new_repo : [exists, log]
    pc,             \* position of run()
    idx,            \* index of the api the authentication loop is at
    err,            \* the exception run() ended with, "none" otherwise
    log,            \* what the current run has done to the outside world
    response        \* the last answer of GET /contributions

vars == <<tokens, events, projects, commits, contributions, counts, repo, calls,
          cache, target, pc, idx, err, log, response>>

Kinds == {"events", "projects", "commits"}
Tokens == {"glpat", ""}

Absent == [state |-> "absent", data |-> <<>>]
Corrupt == [state |-> "corrupt", data |-> <<>>]

\* json.dumps([d for d in dicts], indent=4) and json.load: a JSON array of
\* objects, one per dict, in list order, every key of the dict kept.
JsonDump(dicts) == [state |-> "ok", data |-> [n \in 1..Len(dicts) |-> dicts[n]]]
JsonLoad(file) == file.data

EmptyLog == [cached |-> {}, afterDone |-> FALSE, auth |-> {}, fetched |-> {},
             written |-> {}, listed |-> <<>>]

\* An answer of GET /contributions: the token of the request, the HTTP
\* status and the body; prev is the answer given just before it on the
\* same disk, NoAnswer when there was none.
NoAnswer == [token |-> "", status |-> 0, body |-> <<>>]
NoResponse == [token |-> "", status |-> 0, body |-> <<>>, prev |-> NoAnswer]

\* GitlabContributionProcessor.__init__
NewMemory(t) ==
    /\ tokens' = t
    /\ events' = <<>>
    /\ projects' = <<>>
    /\ commits' = <<>>
    /\ contributions' = <<>>
    /\ counts' = ZeroCounts
    /\ repo' = FALSE
    /\ calls' = 0

Init ==
    /\ tokens \in [1..NumInstances -> Tokens]
    /\ events = <<>>
    /\ projects = <<>>
    /\ commits = <<>>
    /\ contributions = <<>>
    /\ counts = ZeroCounts
    /\ repo = FALSE
    /\ calls = 0
    /\ cache = [k \in Kinds |-> Absent]
    /\ target = [exists |-> FALSE, log |-> <<>>]
    /\ pc = "idle"
    /\ idx = 1
    /\ err = "none"
    /\ log = EmptyLog
    /\ response = NoResponse

\* A new process once the previous one has ended: a fresh processor object
\* over the same disk. log.afterDone tells that the last run completed
\* (requests served since then are no runs).
NewProcessor ==
    /\ pc \in {"done", "failed", "aborted", "served"}
    /\ \E t \in [1..NumInstances -> Tokens] : NewMemory(t)
    /\ pc' = "idle"
    /\ idx' = 1
    /\ err' = "none"
    /\ log' = [EmptyLog EXCEPT
                 !.afterDone = (pc = "done") \/ (pc = "served" /\ log.afterDone)]
    /\ UNCHANGED <<cache, target>>
    /\ response' = NoResponse

\* check_for_existing_exports: the three files are read in turn; json.load
\* raises on a file that is not a JSON document, the loads made before it
\* stay.
check_for_existing_exports(ev, pr, cm) ==
    LET ev1 == IF cache["events"].state = "ok" THEN JsonLoad(cache["events"]) ELSE ev
        pr1 == IF cache["projects"].state = "ok" THEN JsonLoad(cache["projects"]) ELSE pr
        cm1 == IF cache["commits"].state = "ok" THEN JsonLoad(cache["commits"]) ELSE cm
    IN IF cache["events"].state = "corrupt"
         THEN [raised |-> TRUE, events |-> ev, projects |-> pr, commits |-> cm]
       ELSE IF cache["projects"].state = "corrupt"
         THEN [raised |-> TRUE, events |-> ev1, projects |-> pr, commits |-> cm]
       ELSE IF cache["commits"].state = "corrupt"
         THEN [raised |-> TRUE, events |-> ev1, projects |-> pr1, commits |-> cm]
       ELSE [raised |-> FALSE, events |-> ev1, projects |-> pr1, commits |-> cm1]

\* NeedsAuth looking at the events alone.
NeedsAuthEventsOnly(ev, pr, cm) == ev = <<>>

\* `if not self.events or not self.projects or not self.commits`
NeedsAuth(ev, pr, cm) == ev = <<>> \/ pr = <<>> \/ cm = <<>>

\* run(), up to the authentication loop.
StartRun ==
    /\ pc = "idle"
    /\ LET r == check_for_existing_exports(events, projects, commits)
       IN /\ events' = r.events
          /\ projects' = r.projects
          /\ commits' = r.commits
          /\ pc' = IF r.raised THEN "failed"
                   ELSE IF NeedsAuth(r.events, r.projects, r.commits) THEN "auth"
                   ELSE "events"
          /\ err' = IF r.raised THEN "JSONDecodeError" ELSE "none"
    /\ idx' = 1
    /\ log' = [log EXCEPT !.cached = { k \in Kinds : cache[k].state = "ok" }]
    /\ UNCHANGED <<tokens, contributions, counts, repo, calls, cache, target>>
    /\ UNCHANGED response

\* establish_connection then authenticate, for the api the loop is at.
Authenticate ==
    /\ pc = "auth"
    /\ IF tokens[idx] = ""
         THEN /\ pc' = "failed"
              /\ err' = "ValueError"
              /\ UNCHANGED <<idx, log>>
         ELSE \E accepted \in BOOLEAN :
                IF accepted
                  THEN /\ log' = [log EXCEPT !.auth = @ \cup {idx}]
                       /\ idx' = idx + 1
                       /\ pc' = IF idx = NumInstances THEN "events" ELSE "auth"
                       /\ err' = err
                  ELSE /\ pc' = "failed"
                       /\ err' = "GitlabAuthenticationError"
                       /\ UNCHANGED <<idx, log>>
    /\ UNCHANGED <<tokens, events, projects, commits, contributions, counts, repo,
                   calls, cache, target>>
    /\ UNCHANGED response

\* `event["instance"] = api.instance` over one api's answer.
Tag(list, i) == [n \in 1..Len(list) |-> [list[n] EXCEPT !.instance = Instances[i]]]

\* self.<kind>.extend(...) over the apis in configured order.
RECURSIVE Gather(_, _)
Gather(ans, i) ==
    IF i > NumInstances THEN <<>>
    ELSE Tag(ans[i], i) \o Gather(ans, i + 1)

\* export_dicts_to_file; when the process is killed inside it, after
\* open(..., "w") has truncated the file and before f.write, the file is
\* left empty, which is no JSON document.
Export(kind, dicts, killed) ==
    /\ cache' = [cache EXCEPT ![kind] = IF killed THEN Corrupt ELSE JsonDump(dicts)]
    /\ err' = err

\* get_valid_user_events: the listing with action="created", extended by the
\* listing with action="merged"; each is ascending as the remote sorts it.
get_valid_user_events(created, merged) == created \o merged

\* The events block of run().
FetchEvents ==
    /\ pc = "events"
    /\ IF events # <<>>
         THEN /\ pc' = "projects"
              /\ UNCHANGED <<events, cache, err, log>>
         ELSE \E created \in [1..NumInstances -> EventAnswers],
                 merged \in [1..NumInstances -> MergedAnswers],
                 killed \in BOOLEAN :
                /\ events' = Gather([i \in 1..NumInstances |->
                                       get_valid_user_events(created[i], merged[i])], 1)
                /\ Export("events", events', killed)
                /\ log' = [log EXCEPT
                             !.fetched = @ \cup { <<"events", i>> : i \in 1..NumInstances },
                             !.written = IF killed THEN @ ELSE @ \cup {"events"}]
                /\ pc' = IF killed THEN "aborted" ELSE "projects"
    /\ UNCHANGED <<tokens, projects, commits, contributions, counts, repo, calls,
                   target, idx>>
    /\ UNCHANGED response

\* The projects block of run().
FetchProjects ==
    /\ pc = "projects"
    /\ IF projects # <<>>
         THEN /\ pc' = "commits"
              /\ UNCHANGED <<projects, cache, err, log>>
         ELSE \E ans \in [1..NumInstances -> ProjectAnswers], killed \in BOOLEAN :
                /\ projects' = Gather(ans, 1)
                /\ Export("projects", projects', killed)
                /\ log' = [log EXCEPT
                             !.fetched = @ \cup { <<"projects", i>> : i \in 1..NumInstances },
                             !.written = IF killed THEN @ ELSE @ \cup {"projects"}]
                /\ pc' = IF killed THEN "aborted" ELSE "commits"
    /\ UNCHANGED <<tokens, events, commits, contributions, counts, repo, calls,
                   target, idx>>
    /\ UNCHANGED response


\* KeepAfter with >= in place of > : a commit at the very instant of the
\* project's creation is kept.
RECURSIVE KeepAfterInclusive(_, _)
KeepAfterInclusive(list, created_at) ==
    IF list = <<>> THEN <<>>
    ELSE IF Parse(Head(list).committed_date) >= Parse(created_at)
      THEN <<Head(list)>> \o KeepAfterInclusive(Tail(list), created_at)
    ELSE KeepAfterInclusive(Tail(list), created_at)

\* _get_commits for one project, given the remote's answer to the listing:
\* a GitlabError gives [], otherwise the commits whose parsed committed_date
\* is later than the parsed project creation date.
RECURSIVE KeepAfter(_, _)
KeepAfter(list, created_at) ==
    IF list = <<>> THEN <<>>
    ELSE IF Parse(Head(list).committed_date) > Parse(created_at)
      THEN <<Head(list)>> \o KeepAfter(Tail(list), created_at)
    ELSE KeepAfter(Tail(list), created_at)

get_commits(project, answer) ==
    IF answer.error THEN <<>>
    ELSE LET kept == KeepAfter(answer.list, project.created_at)
         IN [n \in 1..Len(kept) |->
               GitlabCommit(kept[n].id, project.id, kept[n].committed_date, "")]

\* get_user_commits_for_projects without the try/except of _get_commits: the
\* first GitlabError ends the loop, and the projects after it are not listed.
RECURSIVE get_user_commits_until_error(_, _, _, _)
get_user_commits_until_error(prs, ans, i, j) ==
    IF j > Len(prs) THEN <<>>
    ELSE IF prs[j].instance = Instances[i] /\ ans[j].error THEN <<>>
    ELSE (IF prs[j].instance = Instances[i] THEN get_commits(prs[j], ans[j]) ELSE <<>>)
         \o get_user_commits_until_error(prs, ans, i, j + 1)

\* get_user_commits_for_projects over the projects of self.projects tagged
\* with instance i, from position j on; ans[j] is the remote's answer for
\* the project at position j.
RECURSIVE get_user_commits_for_projects(_, _, _, _)
get_user_commits_for_projects(prs, ans, i, j) ==
    IF j > Len(prs) THEN <<>>
    ELSE (IF prs[j].instance = Instances[i] THEN get_commits(prs[j], ans[j]) ELSE <<>>)
         \o get_user_commits_for_projects(prs, ans, i, j + 1)

\* The loop over the apis of the commits block.
RECURSIVE GatherCommits(_, _, _)
GatherCommits(prs, ans, i) ==
    IF i > NumInstances THEN <<>>
    ELSE Tag(get_user_commits_for_projects(prs, ans, i, 1), i)
         \o GatherCommits(prs, ans, i + 1)

\* The commits block of run().
FetchCommits ==
    /\ pc = "commits"
    /\ IF commits # <<>>
         THEN /\ pc' = "process"
              /\ UNCHANGED <<commits, cache, err, log>>
         ELSE \E ans \in [1..Len(projects) -> CommitAnswers], killed \in BOOLEAN :
                /\ commits' = GatherCommits(projects, ans, 1)
                /\ Export("commits", commits', killed)
                /\ log' = [log EXCEPT
                             !.fetched = @ \cup
                                { <<"commits", i>> : i \in
                                    { n \in 1..NumInstances :
                                        \E j \in 1..Len(projects) :
                                            projects[j].instance = Instances[n] } },
                             !.written = IF killed THEN @ ELSE @ \cup {"commits"},
                             !.listed = ans]
                /\ pc' = IF killed THEN "aborted" ELSE "process"
    /\ UNCHANGED <<tokens, events, projects, contributions, counts, repo, calls,
                   target, idx>>
    /\ UNCHANGED response

\* self.process_contributions() in run(); the raw listings are dropped.
Process ==
    /\ pc = "process"
    /\ LET r == process_contributions(events, commits, counts, contributions)
       IN /\ contributions' = r.contributions
          /\ counts' = r.counts
          /\ pc' = IF r.raised THEN "failed" ELSE "create_repo"
          /\ err' = IF r.raised THEN "Exception" ELSE err
    /\ calls' = calls + 1
    /\ log' = [log EXCEPT !.listed = <<>>]
    /\ UNCHANGED <<tokens, events, projects, commits, repo, cache, target, idx>>
    /\ UNCHANGED response

\* Repo.init on the existing directory without the rm -rf: the history of
\* the earlier run stays, and the replay adds to it.
CreateRepoKeepsHistory ==
    /\ pc = "create_repo"
    /\ target' = [target EXCEPT !.exists = TRUE]
    /\ repo' = TRUE
    /\ pc' = "replay"
    /\ UNCHANGED <<tokens, events, projects, commits, contributions, counts, calls,
                   cache, idx, err, log>>
    /\ UNCHANGED response

\* create_repo: rm -rf new_repo, then Repo.init.
CreateRepo ==
    /\ pc = "create_repo"
    /\ target' = [exists |-> TRUE, log |-> <<>>]
    /\ repo' = TRUE
    /\ pc' = "replay"
    /\ UNCHANGED <<tokens, events, projects, commits, contributions, counts, calls,
                   cache, idx, err, log>>
    /\ UNCHANGED response

\* The wall clock while the replay runs: 23:00Z, later than every date the
\* remote reports.
WallClock == Parse(Date(23, 0))

\* create_commit: the commit made for one contribution. index.commit is given
\* author_date only, so the committer date is the wall clock.
Commit(c) ==
    [message |-> c.message, date_line |-> c.date, project_id |-> c.project_id,
     instance |-> c.instance, author_date |-> Parse(c.date),
     committed_date |-> WallClock]

\* create_commits_from_contributions, one contribution at a time. Writing a
\* commit may fail (index.commit raises); the exception leaves run() and the
\* commits written so far stay.
CreateCommit ==
    /\ pc = "replay"
    /\ IF Len(target.log) < Len(contributions)
         THEN IF repo
                THEN \E raised \in BOOLEAN :
                       IF raised
                         THEN /\ pc' = "failed"
                              /\ err' = "GitError"
                              /\ UNCHANGED target
                         ELSE /\ target' = [target EXCEPT
                                     !.log = Append(@, Commit(contributions[Len(@) + 1]))]
                              /\ UNCHANGED <<pc, err>>
                ELSE /\ pc' = "failed"
                     /\ err' = "Exception"
                     /\ UNCHANGED target
         ELSE /\ pc' = "done"
              /\ UNCHANGED <<target, err>>
    /\ UNCHANGED <<tokens, events, projects, commits, contributions, counts, repo,
                   calls, cache, idx, log>>
    /\ UNCHANGED response

\* The values of the access_token cookie that pass get_token_from_cookie
\* (an empty or missing cookie is answered 401 before the handler runs): the
\* token of the user the cache was exported for, and another user's.
AccessTokens == {"glpat", "stranger"}

\* What the handler's processor holds after check_for_existing_exports and
\* process_contributions on a fresh processor.
LoadAndNormalize ==
    LET ld == check_for_existing_exports(<<>>, <<>>, <<>>)
        r  == IF ld.raised THEN [raised |-> FALSE, counts |-> ZeroCounts,
                                 contributions |-> <<>>]
              ELSE process_contributions(ld.events, ld.commits, ZeroCounts, <<>>)
    IN [raised |-> ld.raised \/ r.raised,
        err |-> IF ld.raised THEN "JSONDecodeError"
                ELSE IF r.raised THEN "Exception" ELSE "none",
        events |-> ld.events, projects |-> ld.projects, commits |-> ld.commits,
        contributions |-> IF ld.raised THEN <<>> ELSE r.contributions,
        counts |-> IF ld.raised THEN ZeroCounts ELSE r.counts,
        calls |-> IF ld.raised THEN 0 ELSE 1]

\* A handler that serves the cache to the token it was exported with only,
\* and an empty list to any other token.
contributions_for_owner(token, p) ==
    IF token # "glpat" THEN [token |-> token, status |-> 200, body |-> <<>>]
    ELSE IF p.raised THEN [token |-> token, status |-> 500, body |-> <<>>]
    ELSE [token |-> token, status |-> 200, body |-> p.contributions]

\* contributions(token) of app.py, p being its processor after the two
\* calls: the answer is processor.contributions, or 500 when a call raised.
contributions_handler(token, p) ==
    IF p.raised THEN [token |-> token, status |-> 500, body |-> <<>>]
    ELSE [token |-> token, status |-> 200, body |-> p.contributions]

\* GET /contributions, served once a run has ended.
ContributionsRequest ==
    /\ pc \in {"done", "failed", "aborted", "served"}
    /\ \E token \in AccessTokens, p \in {LoadAndNormalize} :
         \E a \in {contributions_handler(token, p)} :
            /\ tokens' = <<token>>
            /\ events' = p.events
            /\ projects' = p.projects
            /\ commits' = p.commits
            /\ contributions' = p.contributions
            /\ counts' = p.counts
            /\ calls' = p.calls
            /\ err' = p.err
            /\ response' = [token |-> a.token, status |-> a.status, body |-> a.body,
                            prev |-> IF pc = "served"
                                       THEN [token |-> response.token,
                                             status |-> response.status,
                                             body |-> response.body]
                                       ELSE NoAnswer]
    /\ repo' = FALSE
    /\ idx' = 1
    /\ log' = [EmptyLog EXCEPT
                 !.afterDone = (pc = "done") \/ (pc = "served" /\ log.afterDone)]
    /\ pc' = "served"
    /\ UNCHANGED <<cache, target>>

Next ==
    \/ ContributionsRequest
    \/ NewProcessor
    \/ StartRun
    \/ Authenticate
    \/ FetchEvents
    \/ FetchProjects
    \/ FetchCommits
    \/ Process
    \/ CreateRepo
    \/ CreateCommit

Spec == Init /\ [][Next]_vars


\* ------------------------------------------------ process_contributions alone
\* A processor that holds any events and commits (as after
\* check_for_existing_exports in the /contributions handler), on which
\* process_contributions is called, possibly more than once.
HeldEvents == { GitlabEvent(1, sh, d, "A") : sh \in EventShapes, d \in {D10Z, D11p2} }
HeldCommits == { GitlabCommit(1, 1, D10Z, "B"), GitlabCommit(2, 1, D11p2, "B") }

InitHeld ==
    /\ tokens = [i \in 1..NumInstances |-> "glpat"]
    /\ events \in SeqsUpTo(HeldEvents, MaxEvents)
    /\ commits \in SeqsUpTo(HeldCommits, MaxCommits)
    /\ projects = <<>>
    /\ contributions = <<>>
    /\ counts = ZeroCounts
    /\ repo = FALSE
    /\ calls = 0
    /\ cache = [k \in Kinds |-> Absent]
    /\ target = [exists |-> FALSE, log |-> <<>>]
    /\ pc = "loaded"
    /\ idx = 1
    /\ err = "none"
    /\ log = EmptyLog
    /\ response = NoResponse

ProcessCall ==
    /\ pc \in {"loaded", "returned", "failed"}
    /\ calls < MaxCalls
    /\ LET r == process_contributions(events, commits, counts, contributions)
       IN /\ contributions' = r.contributions
          /\ counts' = r.counts
          /\ pc' = IF r.raised THEN "failed" ELSE "returned"
          /\ err' = IF r.raised THEN "Exception" ELSE "none"
    /\ calls' = calls + 1
    /\ UNCHANGED <<tokens, events, projects, commits, repo, cache, target, idx, log>>
    /\ UNCHANGED response

NextHeld == ProcessCall

SpecHeld == InitHeld /\ [][NextHeld]_vars


\* ------------------------------------------------ the commits block alone
\* A run that has fetched and exported its projects and stands before the
\* commits block: up to three projects on instance A (a plain one, a fork
\* outside the user's namespace, a fork inside it) and one on instance B.
HeldProjects ==
    << RemoteProject(1, D08Z, "A", FALSE, TRUE),
       RemoteProject(2, D08Z, "A", TRUE, FALSE),
       RemoteProject(3, D08Z, "A", TRUE, TRUE),
       RemoteProject(1, D08Z, "B", FALSE, TRUE) >>

RECURSIVE SubSeqs(_)
SubSeqs(s) ==
    IF s = <<>> THEN { <<>> }
    ELSE LET rest == SubSeqs(Tail(s))
         IN rest \cup { <<Head(s)>> \o r : r \in rest }

InitCommits ==
    /\ tokens = [i \in 1..NumInstances |-> "glpat"]
    /\ events = <<>>
    /\ projects \in SubSeqs(HeldProjects)
    /\ commits = <<>>
    /\ contributions = <<>>
    /\ counts = ZeroCounts
    /\ repo = FALSE
    /\ calls = 0
    /\ cache = [k \in Kinds |->
                 IF k = "events" THEN JsonDump(events)
                 ELSE IF k = "projects" THEN JsonDump(projects)
                 ELSE Absent]
    /\ target = [exists |-> FALSE, log |-> <<>>]
    /\ pc = "commits"
    /\ idx = NumInstances + 1
    /\ err = "none"
    /\ log = [EmptyLog EXCEPT
                !.auth = 1..NumInstances,
                !.fetched = { <<k, i>> : k \in {"events", "projects"},
                                         i \in 1..NumInstances },
                !.written = {"events", "projects"}]
    /\ response = NoResponse

NextCommits == FetchCommits

SpecCommits == InitCommits /\ [][NextCommits]_vars

\* ================================================================ claims
Positions(s) == 1..Len(s)
Occurrences(s, x) == Cardinality({ n \in Positions(s) : s[n] = x })

\* C1: after process_contributions completes, the contributions are in
\* non-decreasing order of the instants their dates denote.
C1_Chronological ==
    pc = "returned" =>
        \A n \in 1..(Len(contributions) - 1) :
            Parse(contributions[n].date) <= Parse(contributions[n + 1].date)

\* The closed rule table of the normalizer: action_name, target_type ("*"
\* for any), contribution_type, message.
RuleTable ==
    { <<"created", "*", "project", "Created project">>,
      <<"opened", "MergeRequest", "merge_request", "Opened merge request">>,
      <<"opened", "Issue", "issue", "Opened issue">>,
      <<"accepted", "*", "merge_request", "Accepted merge request">> }
RulesFor(e) == { r \in RuleTable : r[1] = e.action_name /\ r[2] \in {"*", e.target_type} }
InTable(e) == RulesFor(e) # {}
TableContribution(e) ==
    LET r == CHOOSE x \in RulesFor(e) : TRUE
    IN [contribution_type |-> r[3], message |-> r[4], project_id |-> e.project_id,
        date |-> e.created_at, instance |-> e.instance]
TableCommit(c) ==
    [contribution_type |-> "commit", message |-> "Committed to project",
     project_id |-> c.project_id, date |-> c.committed_date, instance |-> c.instance]
Expected == [n \in Positions(events) |-> TableContribution(events[n])]
            \o [n \in Positions(commits) |-> TableCommit(commits[n])]

\* C3: a completed call has turned every event (all of them inside the rule
\* table) and every commit into exactly one contribution with the type,
\* message and date of the table; a call on events holding a shape outside
\* the table raises.
C3_NormalizationTotal ==
    /\ pc = "returned" =>
         /\ \A n \in Positions(events) : InTable(events[n])
         /\ Len(contributions) = Len(events) + Len(commits)
         /\ \A n \in Positions(Expected) :
              Occurrences(contributions, Expected[n]) = Occurrences(Expected, Expected[n])
    /\ pc = "failed" =>
         /\ err = "Exception"
         /\ \E n \in Positions(events) : ~InTable(events[n])

C3_Witness ==
    /\ pc = "returned"
    /\ \E n \in Positions(events) :
         events[n].action_name = "opened" /\ events[n].target_type = "Issue"
    /\ \E n \in Positions(events) : events[n].action_name = "accepted"
    /\ Len(commits) = MaxCommits
    /\ contributions[1].contribution_type = "commit"

\* C4: after any completed call of process_contributions the counters sum to
\* the number of contributions.
C4_CountConsistency ==
    pc = "returned" => get_total_counts(counts) = Len(contributions)


\* ---------------------------------------------------------------- run()
Processed == pc \in {"create_repo", "replay", "done"}
PastAuth == pc \in {"events", "projects", "commits", "process", "create_repo",
                    "replay", "done", "aborted"}
InstIndex(name) == CHOOSE i \in 1..NumInstances : Instances[i] = name
OfDate(s, d) == LET Same(x) == x.date = d IN SelectSeq(s, Same)
IsCommit(c) == c.contribution_type = "commit"

\* C2: the merge is stable. Among the contributions of one date the output
\* keeps the input order, and that order has every event-derived
\* contribution before every commit-derived one and, within each kind, the
\* records of an earlier-configured instance before those of a later one.
C2_StableMerge ==
    Processed =>
        /\ \A n \in Positions(contributions) :
             OfDate(contributions, contributions[n].date)
               = OfDate(Expected, contributions[n].date)
        /\ \A m, n \in Positions(contributions) :
             (m < n /\ contributions[m].date = contributions[n].date) =>
                /\ IsCommit(contributions[m]) => IsCommit(contributions[n])
                /\ IsCommit(contributions[m]) = IsCommit(contributions[n]) =>
                     InstIndex(contributions[m].instance)
                       <= InstIndex(contributions[n].instance)

C2_Witness ==
    /\ pc = "done"
    /\ \E a, b, c \in Positions(contributions) :
         /\ a < b /\ b < c
         /\ contributions[a].date = contributions[c].date
         /\ contributions[b].date = contributions[c].date
         /\ ~IsCommit(contributions[a]) /\ contributions[a].instance = "A"
         /\ ~IsCommit(contributions[b]) /\ contributions[b].instance = "B"
         /\ IsCommit(contributions[c])

\* C5: the commits handed to normalization hold at most one record per
\* commit id.
C5_OneRecordPerId ==
    pc = "process" =>
        \A m, n \in Positions(commits) : commits[m].id = commits[n].id => m = n

\* C6: after a live commit fetch every commit held is dated strictly after
\* the creation of its project, and of every listing the remote answered
\* exactly the commits dated strictly after the project's creation are held.
LiveCommits == pc = "process" /\ ("commits" \in log.written)
HeldFrom(j, r) ==
    \E n \in Positions(commits) :
        /\ commits[n].id = r.id
        /\ commits[n].committed_date = r.committed_date
        /\ commits[n].project_id = projects[j].id
        /\ commits[n].instance = projects[j].instance
C6_CommitFilter ==
    LiveCommits =>
        /\ \A n \in Positions(commits) :
             \E j \in Positions(projects) :
                /\ projects[j].id = commits[n].project_id
                /\ projects[j].instance = commits[n].instance
                /\ Parse(commits[n].committed_date) > Parse(projects[j].created_at)
        /\ \A j \in Positions(projects) :
             \A n \in Positions(log.listed[j].list) :
                LET r == log.listed[j].list[n]
                IN HeldFrom(j, r)
                     <=> Parse(r.committed_date) > Parse(projects[j].created_at)

C6_Witness ==
    /\ LiveCommits
    /\ Len(projects) = 2
    /\ \E n \in Positions(log.listed[1].list) :
         log.listed[1].list[n].committed_date = D09p2
    /\ \E n \in Positions(log.listed[2].list) :
         log.listed[2].list[n].committed_date = D10Z
    /\ Len(commits) = 1

\* C7: a kind whose cache file was readable when the run started is not
\* fetched from any instance in that run, and the run uses the cached
\* collection.
Held(k) == IF k = "events" THEN events ELSE IF k = "projects" THEN projects ELSE commits
C7_CacheShortCircuit ==
    \A k \in log.cached :
        /\ \A i \in 1..NumInstances : <<k, i>> \notin log.fetched
        /\ PastAuth => Held(k) = JsonLoad(cache[k])

\* C8: a run that follows a completed run, on the cache that run left,
\* yields the contributions the completed run produced (the ones that run
\* replayed into the target repository, which is still in place when the
\* second run has normalized).
C8_ResumeEquivalence ==
    (pc = "create_repo" /\ log.afterDone) =>
        target.log = [n \in Positions(contributions) |-> Commit(contributions[n])]

\* C9: a corrupt cache file never makes a run fail.
C9_CorruptCacheIsAbsent ==
    ~(pc = "failed" /\ err = "JSONDecodeError")

\* C10 as stated: no list call goes through a client that has not
\* authenticated in this run, and a run whose processor has a client without
\* any token never gets past authentication.
AllClients == 1..NumInstances
FetchedAfterAuth == \A f \in log.fetched : f[2] \in log.auth
C10_AuthBeforeFetch ==
    /\ FetchedAfterAuth
    /\ (\E i \in DOMAIN tokens : tokens[i] = "") => ~PastAuth

\* C10 amended: authentication is skipped only by a run that found all three
\* kinds cached and non-empty, and such a run issues no list call and writes
\* no cache file; every other run authenticates every client before its
\* first list call, and fails before any list call and any cache write when
\* a client has no token or is rejected.
AllCachedNonEmpty ==
    /\ log.cached = Kinds
    /\ \A k \in Kinds : JsonLoad(cache[k]) # <<>>
C10_AuthBeforeFetchUnlessCached ==
    /\ FetchedAfterAuth
    /\ (log.fetched # {} \/ log.written # {}) => log.auth = AllClients
    /\ (PastAuth /\ log.auth # AllClients) =>
          /\ AllCachedNonEmpty
          /\ log.fetched = {} /\ log.written = {}
    /\ (PastAuth /\ \E i \in DOMAIN tokens : tokens[i] = "") => AllCachedNonEmpty
    /\ (pc = "failed" /\ err \in {"ValueError", "GitlabAuthenticationError"}) =>
          log.fetched = {} /\ log.written = {}

C10_Witness ==
    /\ pc = "failed"
    /\ err = "ValueError"
    /\ log.auth = {1}
    /\ tokens[2] = ""
    /\ \A k \in Kinds : cache[k].state = "absent"

\* C11: when the listing of one project's commits fails with a remote error,
\* the run goes on, no commit of that project is held, and of every other
\* project (before or after it, on the same or on another instance) the
\* commits the remote listed after the project's creation are all held.
FailedListings == { j \in Positions(projects) : log.listed[j].error }
C11_FailureIsolation ==
    (pc \in {"process", "aborted"} /\ log.listed # <<>> /\ FailedListings # {}) =>
        /\ err = "none"
        /\ pc = "aborted" => cache["commits"] = Corrupt
        /\ pc = "process" => "commits" \in log.written
        /\ \A j \in FailedListings :
              ~ \E n \in Positions(commits) :
                    /\ commits[n].project_id = projects[j].id
                    /\ commits[n].instance = projects[j].instance
        /\ \A j \in Positions(projects) \ FailedListings :
              \A n \in Positions(log.listed[j].list) :
                 LET r == log.listed[j].list[n]
                 IN Parse(r.committed_date) > Parse(projects[j].created_at)
                      => HeldFrom(j, r)

C11_Witness ==
    /\ LiveCommits
    /\ Len(projects) = 4
    /\ FailedListings = {2}
    /\ \A j \in {1, 3, 4} : log.listed[j].list = << [id |-> 1, committed_date |-> D10Z] >>
    /\ Len(commits) = 3

\* C12: a project flagged as a fork whose path does not hold the user's name
\* contributes no commit to a live commit fetch.
C12_ForkSkip ==
    LiveCommits =>
        \A j \in Positions(projects) :
            (projects[j].forked /\ ~projects[j].own_path) =>
                ~ \E n \in Positions(commits) :
                      /\ commits[n].project_id = projects[j].id
                      /\ commits[n].instance = projects[j].instance

\* C13: after a successful run the target repository holds exactly one commit
\* per contribution, the n-th commit made for the n-th contribution, whatever
\* the repository held before the run.
Replayed == [n \in Positions(contributions) |-> Commit(contributions[n])]
C13_FreshHistory ==
    pc = "done" => (target.exists /\ target.log = Replayed)

\* A completed run that follows a completed run which replayed the cached
\* events into the repository.
C13_Witness ==
    /\ pc = "done"
    /\ log.afterDone
    /\ "events" \in log.cached
    /\ events # <<>>
    /\ "commits" \in log.written
    /\ Len(target.log) >= 2

\* C14: every commit of the replay has its author timestamp and its committer
\* timestamp at the instant of the date of its contribution.
C14_Backdating ==
    (pc \in {"replay", "done"}) =>
        \A n \in Positions(target.log) :
            /\ target.log[n].author_date = Parse(contributions[n].date)
            /\ target.log[n].committed_date = Parse(contributions[n].date)

\* C15: a run in which an error was raised leaves the repository with a
\* commit for every contribution or with no commit of the run.
C15_ReplayAllOrNothing ==
    (pc = "failed" /\ repo) => Len(target.log) \in {0, Len(contributions)}

\* C16: the events fetched from one instance are in ascending order of
\* created_at over the whole list.
EventsOf(inst) == { n \in Positions(events) : events[n].instance = inst }
C16_EventsAscending ==
    (pc = "projects" /\ "events" \in log.written) =>
        \A i \in 1..NumInstances :
            \A m, n \in EventsOf(Instances[i]) :
                m < n => Parse(events[m].created_at) <= Parse(events[n].created_at)

\* C17: no cache file is ever left truncated: each file is absent or holds
\* the whole collection that was exported to it.
C17_CacheAllOrNothing ==
    \A k \in Kinds : cache[k].state \in {"absent", "ok"}

\* C18: serving GET /contributions contacts no remote and writes neither a
\* cache file nor the target repository; the answer is the empty list when
\* no cache file exists, the normalization of the cached events and commits
\* when the files are readable and hold events of the rule table only, and
\* the same as the answer given just before to another token.
CachedOf(k) == IF cache[k].state = "ok" THEN JsonLoad(cache[k]) ELSE <<>>
CachedExpected ==
    [n \in Positions(CachedOf("events")) |-> TableContribution(CachedOf("events")[n])]
    \o [n \in Positions(CachedOf("commits")) |-> TableCommit(CachedOf("commits")[n])]
SameRecords(s, t) ==
    /\ Len(s) = Len(t)
    /\ \A n \in Positions(s) : Occurrences(s, s[n]) = Occurrences(t, s[n])
ServedFromCache ==
    /\ log.auth = {} /\ log.fetched = {} /\ log.written = {}
    /\ (\A k \in Kinds : cache[k] = Absent) =>
          (response.status = 200 /\ response.body = <<>>)
    /\ ( /\ \A k \in Kinds : cache[k].state # "corrupt"
         /\ \A n \in Positions(CachedOf("events")) : InTable(CachedOf("events")[n]) ) =>
          (response.status = 200 /\ SameRecords(response.body, CachedExpected))
    /\ response.prev.token \notin {"", response.token} =>
          (response.status = response.prev.status /\ response.body = response.prev.body)
C18_EndpointReadsCacheOnly ==
    [][pc' = "served" => (cache' = cache /\ target' = target /\ ServedFromCache')]_vars

C18_Witness ==
    /\ pc = "served"
    /\ response.token = "stranger"
    /\ response.prev.token = "glpat"
    /\ response.status = 200
    /\ Len(response.body) >= 2
    /\ \E n \in Positions(response.body) : response.body[n].contribution_type = "commit"
====
